---- MODULE Spec2Model ----
(***************************************************************************)
(* Model of the game registry of ai-battle-arena (src/games/registry.ts):  *)
(* a module-level Map<string, GameEngine> with registerGame, getGame and   *)
(* getAllGames.  The ECMAScript Map is modelled as what it is: an ordered  *)
(* list of (key, value) entries with unique keys, where set() on a present *)
(* key replaces the value in place and set() on an absent key appends.     *)
(***************************************************************************)
EXTENDS Integers, Sequences, FiniteSets

\* ----- bounds -----------------------------------------------------------
\* number of distinct game identifiers (strings such as "chess") in play
MaxIds == 2
\* number of distinct engine objects that carry the same identifier
MaxRefs == 2

\* Identifiers are strings in the source; the registry only ever compares
\* them for equality, so they are modelled as 1..MaxIds.
Ids == 1 .. MaxIds

\* A GameEngine object: its `id` attribute and its object identity `ref`
\* (two engine objects with the same id are different objects).
GameEngine == [id : Ids, ref : 1 .. MaxRefs]

\* The value `undefined` of the union GameEngine | undefined.
undefined == [undefined |-> TRUE]

VARIABLES
  gameRegistry,    \* the Map: sequence of [key, value] entries, in Map order
  lastOp,          \* the most recent call: [op, arg, ret, threw]
  everRegistered,  \* history: identifiers ever passed (as engine.id) to registerGame
  lastRegistered,  \* history: id -> the engine most recently registered under id
  replaced,        \* history: the engine displaced by the most recent overwriting registration
  firstOrder,      \* history: identifiers in the order of their first registration
  lastOrder        \* history: identifiers in the order of their latest registration

vars == <<gameRegistry, lastOp, everRegistered, lastRegistered, replaced,
          firstOrder, lastOrder>>

\* ----- ECMAScript Map operations ----------------------------------------
\* the positions of the entries of m whose key is k (at most one in a Map)
MapIndex(m, k) == {i \in 1 .. Len(m) : m[i].key = k}

\* Map.prototype.has
MapHas(m, k) == MapIndex(m, k) # {}

\* mutant of MapSet: always appends a new entry, never replaces
MapSetAppendOnly(m, k, v) == Append(m, [key |-> k, value |-> v])

\* mutant of MapSet: keeps the first value stored under a key
MapSetKeepFirst(m, k, v) ==
  IF MapHas(m, k) THEN m ELSE Append(m, [key |-> k, value |-> v])

\* mutant of MapSet: an overwrite moves the entry to the end of the Map
MapSetMoveToEnd(m, k, v) ==
  Append(SelectSeq(m, LAMBDA en : en.key # k), [key |-> k, value |-> v])

\* mutant of MapSet: the Map is emptied before the entry is stored
MapSetClearing(m, k, v) == <<[key |-> k, value |-> v]>>

\* Map.prototype.set: replace the value in place if the key is present
\* (the entry keeps its position), otherwise append a new entry
MapSet(m, k, v) ==
  IF MapHas(m, k)
    THEN LET i == CHOOSE j \in MapIndex(m, k) : TRUE
         IN [m EXCEPT ![i] = [key |-> k, value |-> v]]
    ELSE Append(m, [key |-> k, value |-> v])

\* mutant of MapGet: a miss falls back to the first entry of the Map
MapGetFallback(m, k) ==
  IF MapHas(m, k) THEN m[CHOOSE j \in MapIndex(m, k) : TRUE].value
  ELSE IF Len(m) > 0 THEN m[1].value ELSE undefined

\* Map.prototype.get: the value stored under k, or undefined
MapGet(m, k) ==
  IF MapHas(m, k) THEN m[CHOOSE j \in MapIndex(m, k) : TRUE].value
  ELSE undefined

\* Array.from(map.values()): the values in Map order
MapValues(m) == [i \in 1 .. Len(m) |-> m[i].value]

\* ----- helpers for the history variables --------------------------------
\* s without the element x
Without(s, x) == SelectSeq(s, LAMBDA y : y # x)

\* is x an element of the sequence s
InSeq(s, x) == \E i \in 1 .. Len(s) : s[i] = x

\* ----- the module ---------------------------------------------------------
\* const gameRegistry = new Map<string, GameEngine>()
Init ==
  /\ gameRegistry = << >>
  /\ lastOp = [op |-> "init", arg |-> undefined, ret |-> undefined, threw |-> FALSE]
  /\ everRegistered = {}
  /\ lastRegistered = [i \in Ids |-> undefined]
  /\ replaced = undefined
  /\ firstOrder = << >>
  /\ lastOrder = << >>

\* mutant of registerGame: the engine is stored under the wrong attribute
registerGameByRef(engine) ==
  /\ gameRegistry' = MapSet(gameRegistry, engine.ref, engine)
  /\ lastOp' = [op |-> "registerGame", arg |-> engine, ret |-> undefined, threw |-> FALSE]
  /\ everRegistered' = everRegistered \cup {engine.id}
  /\ lastRegistered' = [lastRegistered EXCEPT ![engine.id] = engine]
  /\ replaced' = IF engine.id \in everRegistered THEN lastRegistered[engine.id]
                  ELSE replaced
  /\ firstOrder' = IF InSeq(firstOrder, engine.id) THEN firstOrder
                   ELSE Append(firstOrder, engine.id)
  /\ lastOrder' = Append(Without(lastOrder, engine.id), engine.id)

\* mutant of registerGame: refuses (is not enabled for) an identifier that
\* is already registered, i.e. conflict detection
registerGameNoConflict(engine) ==
  /\ ~MapHas(gameRegistry, engine.id)
  /\ gameRegistry' = MapSet(gameRegistry, engine.id, engine)
  /\ lastOp' = [op |-> "registerGame", arg |-> engine, ret |-> undefined, threw |-> FALSE]
  /\ everRegistered' = everRegistered \cup {engine.id}
  /\ lastRegistered' = [lastRegistered EXCEPT ![engine.id] = engine]
  /\ replaced' = IF engine.id \in everRegistered THEN lastRegistered[engine.id]
                  ELSE replaced
  /\ firstOrder' = IF InSeq(firstOrder, engine.id) THEN firstOrder
                   ELSE Append(firstOrder, engine.id)
  /\ lastOrder' = Append(Without(lastOrder, engine.id), engine.id)

\* registerGame(engine): gameRegistry.set(engine.id, engine); returns void
registerGame(engine) ==
  /\ gameRegistry' = MapSet(gameRegistry, engine.id, engine)
  /\ lastOp' = [op |-> "registerGame", arg |-> engine, ret |-> undefined, threw |-> FALSE]
  /\ everRegistered' = everRegistered \cup {engine.id}
  /\ lastRegistered' = [lastRegistered EXCEPT ![engine.id] = engine]
  /\ replaced' = IF engine.id \in everRegistered THEN lastRegistered[engine.id]
                  ELSE replaced
  /\ firstOrder' = IF InSeq(firstOrder, engine.id) THEN firstOrder
                   ELSE Append(firstOrder, engine.id)
  /\ lastOrder' = Append(Without(lastOrder, engine.id), engine.id)

\* mutant of getGame: a lookup that consumes the entry it returns
getGameConsuming(id) ==
  /\ lastOp' = [op |-> "getGame", arg |-> id,
                ret |-> MapGet(gameRegistry, id), threw |-> FALSE]
  /\ gameRegistry' = SelectSeq(gameRegistry, LAMBDA en : en.key # id)
  /\ UNCHANGED <<everRegistered, lastRegistered, replaced, firstOrder, lastOrder>>

\* getGame(id): return gameRegistry.get(id)
getGame(id) ==
  /\ lastOp' = [op |-> "getGame", arg |-> id,
                ret |-> MapGet(gameRegistry, id), threw |-> FALSE]
  /\ UNCHANGED <<gameRegistry, everRegistered, lastRegistered, replaced,
                 firstOrder, lastOrder>>

\* mutant of getAllGames: listing the engines drains the Map
getAllGamesDraining ==
  /\ lastOp' = [op |-> "getAllGames", arg |-> undefined,
                ret |-> MapValues(gameRegistry), threw |-> FALSE]
  /\ gameRegistry' = << >>
  /\ UNCHANGED <<everRegistered, lastRegistered, replaced, firstOrder, lastOrder>>

\* getAllGames(): return Array.from(gameRegistry.values())
getAllGames ==
  /\ lastOp' = [op |-> "getAllGames", arg |-> undefined,
                ret |-> MapValues(gameRegistry), threw |-> FALSE]
  /\ UNCHANGED <<gameRegistry, everRegistered, lastRegistered, replaced,
                 firstOrder, lastOrder>>

Next ==
  \/ \E engine \in GameEngine : registerGame(engine)
  \/ \E id \in Ids : getGame(id)
  \/ getAllGames

Spec == Init /\ [][Next]_vars

\* ----- derived views -----------------------------------------------------
\* the identifiers of a sequence of engines, in order
IdsOf(games) == [i \in 1 .. Len(games) |-> games[i].id]

\* ----- C1 ----------------------------------------------------------------
\* C1: registerGame(e) immediately followed by getGame(e.id) returns that
\* exact engine e, hence an engine whose identifier is e.id.
C1_RegisterThenGet ==
  [][(/\ lastOp.op = "registerGame"
      /\ lastOp'.op = "getGame"
      /\ lastOp'.arg = lastOp.arg.id)
       => (/\ lastOp'.ret = lastOp.arg
           /\ lastOp'.ret.id = lastOp'.arg)]_vars

\* a registration that overwrote a different engine has just happened and
\* the getGame step that follows it hands back the engine just registered
C1_Witness ==
  /\ lastOp.op = "registerGame"
  /\ replaced # undefined
  /\ replaced.id = lastOp.arg.id
  /\ replaced # lastOp.arg
  /\ ENABLED (getGame(lastOp.arg.id) /\ lastOp'.ret = lastOp.arg)

\* ----- C2 ----------------------------------------------------------------
\* C2: last registration wins: getGame(id) returns the engine most recently
\* registered under id, and never an engine that a later registration under
\* the same id displaced.
C2_LastRegistrationWins ==
  /\ \A id \in everRegistered : MapGet(gameRegistry, id) = lastRegistered[id]
  /\ (lastOp.op = "getGame" /\ lastOp.arg \in everRegistered)
       => lastOp.ret = lastRegistered[lastOp.arg]
  /\ (replaced # undefined /\ replaced # lastRegistered[replaced.id])
       => /\ MapGet(gameRegistry, replaced.id) # replaced
          /\ (lastOp.op = "getGame" /\ lastOp.arg = replaced.id)
               => lastOp.ret # replaced

\* engine A was displaced by a different engine B under the same id, other
\* identifiers were registered as well, and getGame(id) has returned B
C2_Witness ==
  /\ replaced # undefined
  /\ replaced # lastRegistered[replaced.id]
  /\ Cardinality(everRegistered) >= 2
  /\ lastOp.op = "getGame"
  /\ lastOp.arg = replaced.id
  /\ lastOp.ret = lastRegistered[replaced.id]

\* ----- C3 ----------------------------------------------------------------
\* C3: getGame on an identifier never passed to registerGame returns
\* undefined and does not raise, whatever else has been registered.
C3_NeverRegisteredNotFound ==
  /\ \A id \in Ids \ everRegistered : MapGet(gameRegistry, id) = undefined
  /\ (lastOp.op = "getGame" /\ lastOp.arg \notin everRegistered)
       => (lastOp.ret = undefined /\ ~lastOp.threw)

\* getGame missed on an unregistered identifier while another is registered
C3_Witness ==
  /\ lastOp.op = "getGame"
  /\ lastOp.arg \notin everRegistered
  /\ everRegistered # {}
  /\ lastOp.ret = undefined

\* ----- C4 ----------------------------------------------------------------
\* C4: the length of getAllGames() equals the number of distinct identifiers
\* registered, and registering under an already-registered identifier does
\* not change that length.
C4_LengthIsDistinctIds ==
  /\ [](/\ Len(MapValues(gameRegistry)) = Cardinality(everRegistered)
        /\ lastOp.op = "getAllGames"
             => Len(lastOp.ret) = Cardinality(everRegistered))
  /\ [][(lastOp'.op = "registerGame" /\ lastOp'.arg.id \in everRegistered)
          => Len(MapValues(gameRegistry')) = Len(MapValues(gameRegistry))]_vars

\* getAllGames was called after an overwrite, with two or more identifiers
C4_Witness ==
  /\ lastOp.op = "getAllGames"
  /\ replaced # undefined
  /\ Cardinality(everRegistered) >= 2
  /\ Len(lastOp.ret) = Cardinality(everRegistered)

\* ----- C5 ----------------------------------------------------------------
\* C5: at most one engine per identifier, each stored under its own
\* identifier: getAllGames() never holds two engines with the same id, and
\* getGame(g.id) returns g for every g in getAllGames().
C5_OneEnginePerId ==
  LET all == MapValues(gameRegistry) IN
  /\ \A i, j \in 1 .. Len(all) : all[i].id = all[j].id => i = j
  /\ \A i \in 1 .. Len(all) :
       /\ gameRegistry[i].key = all[i].id
       /\ MapGet(gameRegistry, all[i].id) = all[i]

\* several engines are held and one of them displaced an earlier engine
C5_Witness ==
  /\ Len(gameRegistry) >= 2
  /\ replaced # undefined
  /\ replaced # lastRegistered[replaced.id]
  /\ \E i \in 1 .. Len(gameRegistry) : gameRegistry[i].key = replaced.id

\* ----- C6 ----------------------------------------------------------------
\* C6 as stated: getAllGames() lists the currently registered engines in
\* the order in which those engines were registered.
C6_Original ==
  /\ IdsOf(MapValues(gameRegistry)) = lastOrder
  /\ lastOp.op = "getAllGames" => IdsOf(lastOp.ret) = lastOrder

\* C6 amended: getAllGames() lists the currently registered engines (for
\* each identifier the engine most recently registered under it) in the
\* order in which their identifiers were first registered; an overwrite
\* keeps the position of the identifier.
C6_FirstRegistrationOrder ==
  LET all == MapValues(gameRegistry) IN
  /\ IdsOf(all) = firstOrder
  /\ \A i \in 1 .. Len(all) : all[i] = lastRegistered[firstOrder[i]]
  /\ lastOp.op = "getAllGames" => lastOp.ret = all

\* getAllGames was called when the order of first registration and the
\* order of latest registration differ
C6_Witness ==
  /\ lastOp.op = "getAllGames"
  /\ Len(lastOp.ret) >= 2
  /\ firstOrder # lastOrder
  /\ IdsOf(lastOp.ret) = firstOrder

\* ----- C7 ----------------------------------------------------------------
\* C7: the registry never shrinks: a registered identifier stays found in
\* every later state and the length of getAllGames() never decreases.
C7_NeverShrinks ==
  /\ [](\A id \in everRegistered : MapGet(gameRegistry, id) # undefined)
  /\ [][/\ \A id \in Ids : MapGet(gameRegistry, id) # undefined
                             => MapGet(gameRegistry', id) # undefined
        /\ Len(MapValues(gameRegistry')) >= Len(MapValues(gameRegistry))]_vars

\* after registrations, an overwrite and a lookup, the identifier is found
C7_Witness ==
  /\ Cardinality(everRegistered) >= 2
  /\ replaced # undefined
  /\ lastOp.op = "getGame"
  /\ lastOp.ret # undefined
  /\ \A id \in everRegistered : MapGet(gameRegistry, id) # undefined

\* ----- C8 ----------------------------------------------------------------
\* C8: getGame and getAllGames leave the registry unchanged, so every later
\* getGame and getAllGames gives the result it would have given without
\* the call.
C8_LookupsArePure ==
  [][lastOp'.op \in {"getGame", "getAllGames"}
       => /\ gameRegistry' = gameRegistry
          /\ \A id \in Ids : MapGet(gameRegistry', id) = MapGet(gameRegistry, id)
          /\ MapValues(gameRegistry') = MapValues(gameRegistry)]_vars

\* getAllGames listed a non-empty registry and the engines are still held
C8_Witness ==
  /\ lastOp.op = "getAllGames"
  /\ Len(lastOp.ret) >= 2
  /\ MapValues(gameRegistry) = lastOp.ret

\* ----- C9 ----------------------------------------------------------------
\* C9: in every reachable state each of registerGame, getGame and
\* getAllGames can be called with every input, and no call has raised.
C9_Total ==
  /\ \A engine \in GameEngine : ENABLED registerGame(engine)
  /\ \A id \in Ids : ENABLED getGame(id)
  /\ ENABLED getAllGames
  /\ ~lastOp.threw

\* every identifier is taken and a further registration has gone through
C9_Witness ==
  /\ everRegistered = Ids
  /\ lastOp.op = "registerGame"
  /\ replaced # undefined
  /\ ~lastOp.threw
  /\ ENABLED registerGame(lastOp.arg)

\* ----- C10 ---------------------------------------------------------------
\* C10: registerGame(e) changes only the entry of e.id: getGame(j) gives the
\* same result right after the call as right before it, for every j # e.id.
C10_RegisterFrame ==
  [][lastOp'.op = "registerGame"
       => \A j \in Ids \ {lastOp'.arg.id} :
            MapGet(gameRegistry', j) = MapGet(gameRegistry, j)]_vars

\* an overwriting registration has happened while another identifier,
\* which is still found, was registered
C10_Witness ==
  /\ lastOp.op = "registerGame"
  /\ replaced # undefined
  /\ replaced.id = lastOp.arg.id
  /\ \E j \in everRegistered \ {lastOp.arg.id} :
       MapGet(gameRegistry, j) = lastRegistered[j]

====
